---- MODULE Spec2Model ----
(***************************************************************************)
(* Model of app/app.py: a Flask service with three handlers, home() for    *)
(* "/", health() for "/health" and info() for "/info".  health() probes a  *)
(* PostgreSQL database through psycopg2.  Requests are served by           *)
(* concurrent threads; each request is a process with its own locals       *)
(* (conn, cur, db_version, e) and its own position pc in the handler.      *)
(* The database and driver are the environment: the outcome of each driver *)
(* call is decided by the database mode at the time of the call, and the   *)
(* mode may change between any two steps.                                  *)
(***************************************************************************)
EXTENDS Integers, Sequences, FiniteSets, TLC

\* ---------------------------------------------------------------- bounds
MaxReq == 2        \* number of requests served

Requests == 1..MaxReq

\* -------------------------------------------------------- python values
\* A str that the program splits is a sequence of one-character strings;
\* a local that is not bound holds Unbound.
Unbound == <<>>

Whitespace == {" "}

\* str.split() with no separator: runs of whitespace separate the tokens,
\* leading and trailing whitespace yields no empty token.
RECURSIVE SplitFrom(_, _, _, _)
SplitFrom(s, i, tok, acc) ==
    IF i > Len(s)
    THEN IF tok = <<>> THEN acc ELSE Append(acc, tok)
    ELSE IF s[i] \in Whitespace
         THEN SplitFrom(s, i + 1, <<>>, IF tok = <<>> THEN acc ELSE Append(acc, tok))
         ELSE SplitFrom(s, i + 1, Append(tok, s[i]), acc)

Split(s) == SplitFrom(s, 1, <<>>, <<>>)

\* The slice [0:2] of a list.
Slice02(l) == SubSeq(l, 1, IF Len(l) < 2 THEN Len(l) ELSE 2)

\* str(e) taken for the name of the class of e.
StrExcClass(x) == x.cls

\* An exception is its class and its args; str(e) is the empty string for
\* an exception raised without arguments and the argument for one argument.
NoExc == [cls |-> "None", args |-> <<>>]
StrExc(x) == IF x.args = <<>> THEN "" ELSE x.args[1]

\* Exceptions the driver raises for the failures of the database: each is
\* a psycopg2.Error carrying the message of libpq.
DriverErrors ==
    { [cls |-> "OperationalError", args |-> <<"server closed the connection unexpectedly">>],
      [cls |-> "ProgrammingError", args |-> <<"permission denied">>] }

\* None[0] in "cur.fetchone()[0]" when the result set has no row.
NotSubscriptable == [cls |-> "TypeError", args |-> <<"'NoneType' object is not subscriptable">>]

\* Version strings the server can return for "SELECT version();": one with
\* more than two tokens and irregular whitespace, one with a single token.
ServerVersions ==
    { <<" ", "P", "G", " ", " ", "1", "4", " ", "o", "n">>,
      <<"P", "G">> }

\* datetime.now().isoformat(): the instant read from the wall clock.  No
\* handler branches on it; it is represented by a single token.
IsoNow == "<ISO-8601 now>"

\* ------------------------------------------------------------ environment
\* os.environ at startup: a function from the names that are set.
Environments ==
    { [n \in {} |-> ""],
      [n \in {"DB_HOST", "DB_NAME", "DB_USER", "DB_PASS"} |->
          CASE n = "DB_HOST" -> "db1" [] n = "DB_NAME" -> "proddb"
            [] n = "DB_USER" -> "admin" [] OTHER -> "s3cret"] }

\* os.environ.get(name) without its default.
EnvGetNoDefault(environ, name, default) ==
    IF name \in DOMAIN environ THEN environ[name] ELSE ""

\* os.environ.get(name, default)
EnvGet(environ, name, default) ==
    IF name \in DOMAIN environ THEN environ[name] ELSE default

\* Database modes: "up" everything succeeds; "empty" the query returns no
\* row; "erroring" the server rejects the query; "down" the server is
\* unreachable and every driver call raises.
Modes == {"up", "empty", "erroring", "down"}

\* Whether a driver call returns normally in a mode.
CallOk(call, mode) ==
    CASE mode = "down" -> FALSE
      [] mode = "erroring" -> call \notin {"execute", "fetchone"}
      [] OTHER -> TRUE

Kinds == {"home", "health", "info"}

VARIABLES
    env,        \* os.environ at startup
    DB_HOST, DB_NAME, DB_USER, DB_PASS,   \* module globals, lines 10-13
    db,         \* the mode of the database
    open,       \* connections opened and not closed
    kind,       \* per request: the route
    pc,         \* per request: position in the handler
    conn,       \* per request: local conn (0 is None)
    cur,        \* per request: local cur ("none", "open", "closed")
    db_version, \* per request: local db_version
    e,          \* per request: the exception in flight / bound by except
    resp,       \* per request: the response returned to the HTTP layer
    opened,     \* per request: the connection it opened (0 if none), history
    log         \* per request: history of driver calls, see Logged

vars == <<env, DB_HOST, DB_NAME, DB_USER, DB_PASS, db, open,
          kind, pc, conn, cur, db_version, e, resp, opened, log>>
config == <<env, DB_HOST, DB_NAME, DB_USER, DB_PASS>>
dbstate == <<db, open>>
locals == <<conn, cur, db_version, e>>

NoResp == [code |-> 0, body |-> [none |-> TRUE]]

\* ------------------------------------------------------------- responses
\* jsonify({...}) with the default status, lines 31-36
HomeResponse ==
    [code |-> 200,
     body |-> [service |-> "Python test Application",
               message |-> "Hello from Ibrahim!",
               timestamp |-> IsoNow,
               status |-> "running"]]

\* lines 53-58
HealthyResponse(v) ==
    [code |-> 200,
     body |-> [status |-> "healthy", database |-> "connected",
               db_version |-> Slice02(Split(v)), timestamp |-> IsoNow]]

\* The degraded result sent as a client error.
DegradedResponse400(x) ==
    [code |-> 400,
     body |-> [status |-> "degraded", database |-> "error",
               error |-> StrExc(x), timestamp |-> IsoNow]]

\* lines 60-65
DegradedResponse(x) ==
    [code |-> 500,
     body |-> [status |-> "degraded", database |-> "error",
               error |-> StrExc(x), timestamp |-> IsoNow]]

\* The unhealthy result sent with the status code of the degraded one.
UnhealthyResponse500 ==
    [code |-> 500,
     body |-> [status |-> "unhealthy", database |-> "disconnected",
               timestamp |-> IsoNow]]

\* lines 67-71
UnhealthyResponse ==
    [code |-> 503,
     body |-> [status |-> "unhealthy", database |-> "disconnected",
               timestamp |-> IsoNow]]

\* lines 76-86
InfoResponse(host, name) ==
    [code |-> 200,
     body |-> [python_version |-> "3.12.3", flask_version |-> "installed",
               database_host |-> host, database_name |-> name,
               endpoints |-> <<"/ - Homepage", "/health - Health check",
                               "/info - This page">>]]

\* ------------------------------------------------------------ exceptions
\* Statements inside "try:" of health(), lines 45-58.
TryBlock == {"cursor", "execute", "fetchone", "cur_close", "conn_close", "ret_healthy"}

\* get_db_connection without its try/except: a failure of connect leaves
\* the handler.
HandlerNoConnectCatch(p) ==
    IF p \in TryBlock THEN "except" ELSE "raised"

\* get_db_connection retrying connect when it raises.
HandlerRetryConnect(p) ==
    IF p = "connect" THEN "connect"
    ELSE IF p \in TryBlock THEN "except"
    ELSE "raised"

\* Where control goes when the statement at position p raises an Exception:
\* the except clause of get_db_connection (line 25), the except clause of
\* health (line 59), or out of the handler to the HTTP layer.
Handler(p) ==
    IF p = "connect" THEN "gdc_except"
    ELSE IF p \in TryBlock THEN "except"
    ELSE "raised"

Raise(r, x) ==
    /\ pc' = [pc EXCEPT ![r] = Handler(pc[r])]
    /\ e' = [e EXCEPT ![r] = x]

\* Returning from the handler discards its frame and with it the locals.
Return(r, response) ==
    /\ resp' = [resp EXCEPT ![r] = response]
    /\ pc' = [pc EXCEPT ![r] = "done"]
    /\ conn' = [conn EXCEPT ![r] = 0]
    /\ cur' = [cur EXCEPT ![r] = "none"]
    /\ db_version' = [db_version EXCEPT ![r] = Unbound]
    /\ e' = [e EXCEPT ![r] = NoExc]

\* Number of entries of a request's history for a driver call.
Calls(r, call) == Cardinality({i \in 1..Len(log[r]) : log[r][i].call = call})

\* psycopg2.connect returns a new connection object: the n-th connection
\* created while serving request r.  0 stands for None.
NewConn(r) == Calls(r, "connect") * MaxReq + r

\* The history of a request gets one entry per driver call: the call, how
\* it ended ("ok", "none" for a fetchone() that returned None, "raised") and
\* what it gave (the args of the exception, the version string, else <<>>).
Logged(r, call, out, val) ==
    log' = [log EXCEPT ![r] = Append(@, [call |-> call, out |-> out, val |-> val])]

\* ------------------------------------------------------------------ init
Init ==
    /\ env \in Environments
    /\ DB_HOST = EnvGet(env, "DB_HOST", "localhost")
    /\ DB_NAME = EnvGet(env, "DB_NAME", "testdb")
    /\ DB_USER = EnvGet(env, "DB_USER", "testuser")
    /\ DB_PASS = EnvGet(env, "DB_PASS", "testpass")
    /\ db \in Modes
    /\ open = {}
    /\ kind = [r \in Requests |-> "none"]
    /\ pc = [r \in Requests |-> "idle"]
    /\ conn = [r \in Requests |-> 0]
    /\ cur = [r \in Requests |-> "none"]
    /\ db_version = [r \in Requests |-> Unbound]
    /\ e = [r \in Requests |-> NoExc]
    /\ resp = [r \in Requests |-> NoResp]
    /\ opened = [r \in Requests |-> 0]
    /\ log = [r \in Requests |-> <<>>]

\* ----------------------------------------------------------- environment
\* The database changes mode.
DbChange ==
    /\ \E m \in Modes \ {db} : db' = m
    /\ UNCHANGED <<config, open, kind, pc, locals, resp, opened, log>>

\* The HTTP layer routes a request to its handler.  Requests are numbered
\* in order of arrival.
Dispatch(r, k) ==
    /\ pc[r] = "idle"
    /\ \A q \in Requests : q < r => pc[q] # "idle"
    /\ kind' = [kind EXCEPT ![r] = k]
    /\ pc' = [pc EXCEPT ![r] = CASE k = "home" -> "home"
                                 [] k = "info" -> "info"
                                 [] OTHER -> "connect"]
    /\ UNCHANGED <<config, dbstate, locals, resp, opened, log>>

\* home() probing the database as health() does.
HomeProbing(r) ==
    /\ pc[r] = "home"
    /\ Return(r, HomeResponse)
    /\ IF CallOk("connect", db)
       THEN /\ open' = open \cup {NewConn(r)}
            /\ opened' = [opened EXCEPT ![r] = NewConn(r)]
            /\ Logged(r, "connect", "ok", <<>>)
       ELSE /\ Logged(r, "connect", "raised", <<>>)
            /\ UNCHANGED <<open, opened>>
    /\ UNCHANGED <<config, db, kind>>

\* ------------------------------------------------------------------ home
\* home(), lines 29-36
Home(r) ==
    /\ pc[r] = "home"
    /\ Return(r, HomeResponse)
    /\ UNCHANGED <<config, dbstate, kind, opened, log>>

\* ------------------------------------------------------------------ info
\* info(), lines 74-86
Info(r) ==
    /\ pc[r] = "info"
    /\ Return(r, InfoResponse(DB_HOST, DB_NAME))
    /\ UNCHANGED <<config, dbstate, kind, opened, log>>

\* get_db_connection() handing out a connection that is already open, when
\* there is one, instead of a new one.
ConnectShared(r) ==
    /\ pc[r] = "connect"
    /\ IF CallOk("connect", db)
       THEN /\ \E c \in (IF open = {} THEN {NewConn(r)} ELSE open) :
                  /\ conn' = [conn EXCEPT ![r] = c]
                  /\ open' = open \cup {c}
                  /\ opened' = [opened EXCEPT ![r] = c]
            /\ pc' = [pc EXCEPT ![r] = "if_conn"]
            /\ Logged(r, "connect", "ok", <<>>)
            /\ UNCHANGED e
       ELSE /\ \E x \in DriverErrors :
                  /\ Raise(r, x)
                  /\ Logged(r, "connect", "raised", x.args)
            /\ UNCHANGED <<conn, open, opened>>
    /\ UNCHANGED <<config, db, kind, cur, db_version, resp>>

\* ---------------------------------------------------------------- health
\* get_db_connection(), lines 18-24: psycopg2.connect(...)
Connect(r) ==
    /\ pc[r] = "connect"
    /\ IF CallOk("connect", db)
       THEN /\ conn' = [conn EXCEPT ![r] = NewConn(r)]
            /\ open' = open \cup {NewConn(r)}
            /\ opened' = [opened EXCEPT ![r] = NewConn(r)]
            /\ pc' = [pc EXCEPT ![r] = "if_conn"]
            /\ Logged(r, "connect", "ok", <<>>)
            /\ UNCHANGED e
       ELSE /\ \E x \in DriverErrors :
                  /\ Raise(r, x)
                  /\ Logged(r, "connect", "raised", x.args)
            /\ UNCHANGED <<conn, open, opened>>
    /\ UNCHANGED <<config, db, kind, cur, db_version, resp>>

\* get_db_connection(), lines 25-26: except Exception as e: return None
ConnectExcept(r) ==
    /\ pc[r] = "gdc_except"
    /\ conn' = [conn EXCEPT ![r] = 0]
    /\ e' = [e EXCEPT ![r] = NoExc]
    /\ pc' = [pc EXCEPT ![r] = "if_conn"]
    /\ UNCHANGED <<config, dbstate, kind, cur, db_version, resp, opened, log>>

\* line 44: if conn
IfConn(r) ==
    /\ pc[r] = "if_conn"
    /\ pc' = [pc EXCEPT ![r] = IF conn[r] # 0 THEN "cursor" ELSE "ret_unhealthy"]
    /\ UNCHANGED <<config, dbstate, kind, locals, resp, opened, log>>

\* line 47: cur = conn.cursor()
Cursor(r) ==
    /\ pc[r] = "cursor"
    /\ IF CallOk("cursor", db)
       THEN /\ cur' = [cur EXCEPT ![r] = "open"]
            /\ pc' = [pc EXCEPT ![r] = "execute"]
            /\ Logged(r, "cursor", "ok", <<>>)
            /\ UNCHANGED e
       ELSE /\ \E x \in DriverErrors :
                  /\ Raise(r, x)
                  /\ Logged(r, "cursor", "raised", x.args)
            /\ UNCHANGED cur
    /\ UNCHANGED <<config, dbstate, kind, conn, db_version, resp, opened>>

\* line 48: cur.execute('SELECT version();')
Execute(r) ==
    /\ pc[r] = "execute"
    /\ IF CallOk("execute", db)
       THEN /\ pc' = [pc EXCEPT ![r] = "fetchone"]
            /\ Logged(r, "execute", "ok", <<>>)
            /\ UNCHANGED e
       ELSE /\ \E x \in DriverErrors :
                  /\ Raise(r, x)
                  /\ Logged(r, "execute", "raised", x.args)
    /\ UNCHANGED <<config, dbstate, kind, conn, cur, db_version, resp, opened>>

\* line 49: db_version = cur.fetchone()[0].  fetchone() raises, or returns
\* None when there is no row (and None[0] raises), or returns the row.
Fetchone(r) ==
    /\ pc[r] = "fetchone"
    /\ IF ~CallOk("fetchone", db)
       THEN /\ \E x \in DriverErrors :
                  /\ Raise(r, x)
                  /\ Logged(r, "fetchone", "raised", x.args)
            /\ UNCHANGED db_version
       ELSE IF db = "empty"
       THEN /\ Raise(r, NotSubscriptable)
            /\ Logged(r, "fetchone", "none", <<>>)
            /\ UNCHANGED db_version
       ELSE /\ \E v \in ServerVersions :
                  /\ db_version' = [db_version EXCEPT ![r] = v]
                  /\ Logged(r, "fetchone", "ok", v)
            /\ pc' = [pc EXCEPT ![r] = "cur_close"]
            /\ UNCHANGED e
    /\ UNCHANGED <<config, dbstate, kind, conn, cur, resp, opened>>

\* line 50: cur.close()
CurClose(r) ==
    /\ pc[r] = "cur_close"
    /\ IF CallOk("cur_close", db)
       THEN /\ cur' = [cur EXCEPT ![r] = "closed"]
            /\ pc' = [pc EXCEPT ![r] = "conn_close"]
            /\ Logged(r, "cur_close", "ok", <<>>)
            /\ UNCHANGED e
       ELSE /\ \E x \in DriverErrors :
                  /\ Raise(r, x)
                  /\ Logged(r, "cur_close", "raised", x.args)
            /\ UNCHANGED cur
    /\ UNCHANGED <<config, dbstate, kind, conn, db_version, resp, opened>>

\* line 51: conn.close().  The driver checks the connection's state before
\* it releases it, so that a close() that raises has released nothing.
ConnClose(r) ==
    /\ pc[r] = "conn_close"
    /\ IF CallOk("conn_close", db)
       THEN /\ open' = open \ {conn[r]}
            /\ pc' = [pc EXCEPT ![r] = "ret_healthy"]
            /\ Logged(r, "conn_close", "ok", <<>>)
            /\ UNCHANGED e
       ELSE /\ \E x \in DriverErrors :
                  /\ Raise(r, x)
                  /\ Logged(r, "conn_close", "raised", x.args)
            /\ UNCHANGED open
    /\ UNCHANGED <<config, db, kind, conn, cur, db_version, resp, opened>>

\* lines 53-58: return jsonify({... db_version.split()[0:2] ...}), 200
RetHealthy(r) ==
    /\ pc[r] = "ret_healthy"
    /\ Return(r, HealthyResponse(db_version[r]))
    /\ UNCHANGED <<config, dbstate, kind, opened, log>>

\* lines 59-65: except Exception as e: return jsonify({...}), 500
RetDegraded(r) ==
    /\ pc[r] = "except"
    /\ Return(r, DegradedResponse(e[r]))
    /\ UNCHANGED <<config, dbstate, kind, opened, log>>

\* lines 66-71: else: return jsonify({...}), 503
RetUnhealthy(r) ==
    /\ pc[r] = "ret_unhealthy"
    /\ Return(r, UnhealthyResponse)
    /\ UNCHANGED <<config, dbstate, kind, opened, log>>

\* One step of health() serving request r.
HealthStep(r) ==
    \/ Connect(r)
    \/ ConnectExcept(r)
    \/ IfConn(r)
    \/ Cursor(r)
    \/ Execute(r)
    \/ Fetchone(r)
    \/ CurClose(r)
    \/ ConnClose(r)
    \/ RetHealthy(r)
    \/ RetDegraded(r)
    \/ RetUnhealthy(r)

\* One step of the handler serving request r.
Step(r) ==
    \/ Home(r)
    \/ Info(r)
    \/ HealthStep(r)

Next ==
    \/ DbChange
    \/ \E r \in Requests, k \in Kinds : Dispatch(r, k)
    \/ \E r \in Requests : Step(r)

Spec == Init /\ [][Next]_vars

\* The probe alone, with the default configuration: every request is a
\* /health request.  The framework runs every dispatched handler to its
\* end: each thread keeps being scheduled, and each driver call returns or
\* raises.
HealthInit == Init /\ env = [n \in {} |-> ""]

HealthNext ==
    \/ DbChange
    \/ \E r \in Requests : Dispatch(r, "health")
    \/ \E r \in Requests : HealthStep(r)

FairSpec ==
    HealthInit /\ [][HealthNext]_vars /\ \A r \in Requests : WF_vars(HealthStep(r))

\* ================================================================ claims
Done(r) == pc[r] = "done"
HealthDone(r) == kind[r] = "health" /\ Done(r)
Body(r) == resp[r].body

\* The entry of the history of r for a driver call ended as out.
Had(r, call, out) == \E i \in 1..Len(log[r]) : log[r][i].call = call /\ log[r][i].out = out
ConnectRaised(r) == Had(r, "connect", "raised")
ConnectOk(r) == Had(r, "connect", "ok")
Last(l) == l[Len(l)]

\* ---------------------------------------------------------------------
\* C1: in health(), a connection that get_db_connection() opened is closed
\* by the time health() returns, on every exit path.  The code closes it
\* only on the path where every statement of the try block succeeds.
C1_OpenedConnectionClosed ==
    \A r \in Requests : (HealthDone(r) /\ opened[r] # 0) => opened[r] \notin open

\* ---------------------------------------------------------------------
\* C2: if psycopg2.connect raises, health() returns unhealthy /
\* disconnected / 503 with neither db_version nor error, and the invocation
\* creates no cursor and executes no query, whatever exception was raised.
C2_ConnectFailureUnhealthy ==
    \A r \in Requests :
        ConnectRaised(r) =>
            /\ Len(log[r]) = 1
            /\ cur[r] = "none"
            /\ conn[r] = 0 /\ opened[r] = 0
            /\ pc[r] \in {"gdc_except", "if_conn", "ret_unhealthy", "done"}
            /\ Done(r) =>
                  /\ resp[r].code = 503
                  /\ DOMAIN Body(r) = {"status", "database", "timestamp"}
                  /\ Body(r).status = "unhealthy"
                  /\ Body(r).database = "disconnected"

C2_Witness ==
    \E r \in Requests : HealthDone(r) /\ ConnectRaised(r) /\ resp[r].code = 503

\* ---------------------------------------------------------------------
\* C3: whenever the connection opens and execute and fetch return a version
\* string, health() returns healthy / connected / 200 with a non-empty
\* detail equal to the first two tokens of that string, and no later step
\* (cur.close(), conn.close()) changes this outcome.
QueryReturned(r) ==
    ConnectOk(r) /\ Had(r, "execute", "ok") /\ Had(r, "fetchone", "ok")
FetchedVersion(r) ==
    LET i == CHOOSE j \in 1..Len(log[r]) : log[r][j].call = "fetchone" IN log[r][i].val

C3_QuerySuccessHealthy ==
    \A r \in Requests :
        (HealthDone(r) /\ QueryReturned(r)) =>
            /\ resp[r].code = 200
            /\ Body(r).status = "healthy"
            /\ Body(r).database = "connected"
            /\ "db_version" \in DOMAIN Body(r)
            /\ Body(r).db_version # <<>>
            /\ Body(r).db_version = Slice02(Split(FetchedVersion(r)))

\* ---------------------------------------------------------------------
\* C4: whenever the connection opens but cursor creation, execute or fetch
\* raises, health() returns degraded / error / 500 with a non-empty error
\* detail that carries the message of the exception, and no db_version.
QueryRaised(r) ==
    /\ ConnectOk(r)
    /\ \/ Had(r, "cursor", "raised")
       \/ Had(r, "execute", "raised")
       \/ Had(r, "fetchone", "raised")

C4_QueryFailureDegraded ==
    /\ \A r \in Requests :
        (HealthDone(r) /\ QueryRaised(r)) =>
            /\ resp[r].code = 500
            /\ DOMAIN Body(r) = {"status", "database", "error", "timestamp"}
            /\ Body(r).status = "degraded"
            /\ Body(r).database = "error"
            /\ Body(r).error # ""
            /\ <<Body(r).error>> = Last(log[r]).val
    /\ \A r \in Requests :
        (HealthDone(r) /\ Had(r, "fetchone", "none")) =>
            /\ resp[r].code = 500
            /\ DOMAIN Body(r) = {"status", "database", "error", "timestamp"}
            /\ Body(r).status = "degraded"
            /\ Body(r).database = "error"
            /\ Body(r).error = StrExc(NotSubscriptable)
            /\ Body(r).error # ""

C4_Witness ==
    \E r \in Requests :
        /\ HealthDone(r) /\ Had(r, "execute", "raised")
        /\ Body(r).error = "permission denied"

\* ---------------------------------------------------------------------
\* C5: every response of /health is one of (healthy, connected, 200),
\* (degraded, error, 500), (unhealthy, disconnected, 503), and no endpoint
\* returns a 4xx code.
HealthTriples ==
    { <<"healthy", "connected", 200>>,
      <<"degraded", "error", 500>>,
      <<"unhealthy", "disconnected", 503>> }

C5_ThreeTriples ==
    \A r \in Requests :
        Done(r) =>
            /\ resp[r].code \notin 400..499
            /\ kind[r] = "health" =>
                  /\ {"status", "database"} \subseteq DOMAIN Body(r)
                  /\ <<Body(r).status, Body(r).database, resp[r].code>> \in HealthTriples

C5_Witness ==
    \E r1, r2 \in Requests :
        /\ HealthDone(r1) /\ resp[r1].code = 500
        /\ HealthDone(r2) /\ resp[r2].code = 200

\* ---------------------------------------------------------------------
\* C6: every invocation of health() ends by returning exactly one
\* structured result, never by an exception reaching the HTTP layer,
\* whatever combination of driver calls fails; when each driver call returns
\* or raises, every invocation that started completes.
Structured(r) ==
    /\ resp[r].code \in {200, 500, 503}
    /\ "none" \notin DOMAIN Body(r)
    /\ kind[r] = "health" => {"status", "database", "timestamp"} \subseteq DOMAIN Body(r)

C6_NoEscape ==
    \A r \in Requests :
        /\ pc[r] # "raised"
        /\ Done(r) => Structured(r)
        /\ ~Done(r) => resp[r] = NoResp

\* A result, once returned, stays the result; an invocation that started
\* never becomes one that did not.
C6_ResultOnce ==
    \A r \in Requests :
        /\ resp[r] # NoResp => resp'[r] = resp[r]
        /\ pc[r] # "idle" => pc'[r] # "idle"

\* Eventually every request is either not started or completed, for good.
C6_Settled == \A r \in Requests : pc[r] \in {"idle", "done"}

\* C6: no exception leaves health(), each completed invocation holds one
\* structured result that never changes, and every started invocation
\* completes.
C6_AlwaysStructuredResult ==
    /\ []C6_NoEscape
    /\ [][C6_ResultOnce]_vars
    /\ <>[]C6_Settled

C6_Witness ==
    \E r1, r2 \in Requests :
        /\ HealthDone(r1) /\ ConnectRaised(r1)
        /\ HealthDone(r2) /\ Had(r2, "conn_close", "raised")

\* ---------------------------------------------------------------------
\* C7: home() returns 200 with the fields service, message, timestamp and
\* status in every state of the database, makes no connection attempt and
\* no query, and leaves the database and connection state as it found it.
C7_HomeResult ==
    \A r \in Requests :
        kind[r] = "home" =>
            /\ log[r] = <<>> /\ opened[r] = 0 /\ conn[r] = 0 /\ cur[r] = "none"
            /\ pc[r] \in {"home", "done"}
            /\ Done(r) =>
                  /\ resp[r].code = 200
                  /\ DOMAIN Body(r) = {"service", "message", "timestamp", "status"}

C7_HomeFrame ==
    \A r \in Requests :
        (pc[r] = "home" /\ pc'[r] # "home") =>
            /\ pc'[r] = "done"
            /\ UNCHANGED <<db, open, opened, log>>
            /\ \A q \in Requests \ {r} :
                  conn'[q] = conn[q] /\ cur'[q] = cur[q] /\ pc'[q] = pc[q]

\* C7: home() always answers 200 with its four fields, without a driver call
\* and without changing database, connection or other requests' state.
C7_HomeAlways200NoProbe == []C7_HomeResult /\ [][C7_HomeFrame]_vars

C7_Witness ==
    \E r, q \in Requests :
        /\ kind[r] = "home" /\ Done(r) /\ db = "down"
        /\ kind[q] = "health" /\ conn[q] # 0 /\ conn[q] \in open

\* ---------------------------------------------------------------------
\* C8: info() returns 200 with database_host and database_name equal to the
\* DB_HOST and DB_NAME of the environment at startup ('localhost', 'testdb'
\* when unset); no request changes the configuration, so that every /info
\* response of the process reports the same values.
C8_InfoResult ==
    \A r \in Requests :
        (kind[r] = "info" /\ Done(r)) =>
            /\ resp[r].code = 200
            /\ Body(r).database_host =
                  (IF "DB_HOST" \in DOMAIN env THEN env["DB_HOST"] ELSE "localhost")
            /\ Body(r).database_name =
                  (IF "DB_NAME" \in DOMAIN env THEN env["DB_NAME"] ELSE "testdb")
            /\ \A q \in Requests : (kind[q] = "info" /\ Done(q)) => resp[q] = resp[r]

C8_ConfigFrozen == UNCHANGED <<env, DB_HOST, DB_NAME, DB_USER, DB_PASS>>

\* C8: every /info response is 200 with the startup DB_HOST and DB_NAME, and
\* no step changes the configuration.
C8_InfoEchoesConfig == []C8_InfoResult /\ [][C8_ConfigFrozen]_vars

C8_Witness ==
    \E r, q \in Requests :
        /\ kind[r] = "info" /\ Done(r) /\ Body(r).database_host = "localhost"
        /\ HealthDone(q) /\ q < r

\* ---------------------------------------------------------------------
\* C9: /health evaluations are independent: each opens its own connection,
\* and its result is decided by the outcomes of its own connect and query
\* steps alone, not by any other request, earlier or interleaved.
Essence(r) ==
    <<resp[r].code, Body(r).status, Body(r).database,
      IF "db_version" \in DOMAIN Body(r) THEN Body(r).db_version ELSE <<>>,
      IF "error" \in DOMAIN Body(r) THEN <<Body(r).error>> ELSE <<>>>>

C9_IndependentProbes ==
    /\ \A r \in Requests : conn[r] # 0 => conn[r] = opened[r]
    /\ \A r1, r2 \in Requests :
          (r1 # r2 /\ opened[r1] # 0) => opened[r1] # opened[r2]
    /\ \A r1, r2 \in Requests :
          (HealthDone(r1) /\ HealthDone(r2) /\ log[r1] = log[r2]) =>
              Essence(r1) = Essence(r2)
    /\ \A r \in Requests :
          (HealthDone(r) /\ Len(log[r]) = 6 /\ Last(log[r]).out = "ok") =>
              resp[r].code = 200

C9_Witness ==
    \E r1, r2 \in Requests :
        /\ r1 < r2
        /\ HealthDone(r1) /\ resp[r1].code = 503
        /\ HealthDone(r2) /\ resp[r2].code = 200
        /\ opened[r2] # 0

\* ---------------------------------------------------------------------
\* C10: each invocation of health() makes exactly one connection attempt
\* and, only if it succeeded, at most one execution of the query, in the
\* order connect, query, release; no step is retried after a failure.
CallOrder == <<"connect", "cursor", "execute", "fetchone", "cur_close", "conn_close">>

C10_OneAttemptInOrder ==
    \A r \in Requests :
        /\ Len(log[r]) <= Len(CallOrder)
        /\ \A i \in 1..Len(log[r]) :
              /\ log[r][i].call = CallOrder[i]
              /\ i < Len(log[r]) => log[r][i].out = "ok"
        /\ (kind[r] = "health" /\ pc[r] # "connect") => Calls(r, "connect") = 1
        /\ Calls(r, "execute") <= 1
        /\ kind[r] # "health" => log[r] = <<>>

C10_Witness ==
    \E r \in Requests :
        HealthDone(r) /\ Len(log[r]) = 6 /\ Last(log[r]).out = "ok"

====
